---------------------------- MODULE Spec2Model ----------------------------
(***************************************************************************)
(* Precipitation disaggregation: the climatology weight builder            *)
(* (scripts/proc_02.py) and the stochastic disaggregation engine           *)
(* (scripts/prcalc_03.py).                                                 *)
(*                                                                         *)
(* Numbers.  A weight or an amount is an exact rational <<num, den>> with  *)
(* den > 0; a weight read from or written to the weight table file is an   *)
(* integer count of ten-thousandths (the file holds 4 decimals).  Binary   *)
(* floating-point error (about 1e-16 relative) is not modelled; decimal    *)
(* rounding (.round(4), '%.4f') is.                                        *)
(***************************************************************************)
EXTENDS Integers, Sequences, FiniteSets, TLC

VARIABLES
    hourly,                \* proc_02: historical hourly rows [time, pr], pr > 0
    threehourly,           \* proc_02: historical 3-hour rows [time, pr], pr > 0
    weights_raw,           \* proc_02 main: result of match_hourly_to_3hourly
    weights_agg_hourly,    \* proc_02 main: result of aggregate_weights
    weights_final_hourly,  \* proc_02 main: result of normalize_weights
    csv_file,              \* the weight table file (rows as save_csv writes them)
    pcb,                   \* position of proc_02 main
    weights_df,            \* prcalc_03: the weight table as read from the file
    pcg,                   \* the generator library: (seed, draw number) -> raw value, for the draws made
    choice_advances,       \* the generator library: does choice() over one element consume a draw
    future_df,             \* per run: the ordered future records
    batch_size,            \* per run: records per batch
    random_seed,           \* per run: --random-seed
    weights_dict_exact,    \* per run: exact index, key -> rows
    weights_dict_monthly,  \* per run: monthly index, key -> rows
    match_stats,           \* per run: histogram of match levels
    batch_idx,             \* per run: next batch of the loop
    result,                \* per run: the result columns being filled
    result_df,             \* per run: the final data frame (sequence of rows)
    pc,                    \* per run: position of prcalc_03 main
    pr_table,              \* the pr table of the database: rows [cell_id, time, pr] in storage order
    args,                  \* prcalc_03 main: --limit-rows and --cell-id, {} for None, {v} for v
    saved,                 \* prcalc_03 main: what save_results wrote, [dir, rows]
    nc_file,               \* ncloader: the netCDF file, [lat0, lon0, times]
    cells,                 \* ncloader: the rows of the cells table, [cell_id, lon, lat]
    nc_rows,               \* ncloader: the rows read_netcdf inserted, with the indices it read at
    pcn                    \* position of ncloader main, [at, file, cell]

vars == <<hourly, threehourly, weights_raw, weights_agg_hourly, weights_final_hourly,
          csv_file, pcb, weights_df, pcg, choice_advances, future_df, batch_size,
          random_seed, weights_dict_exact, weights_dict_monthly, match_stats,
          batch_idx, result, result_df, pc, pr_table, args, saved,
          nc_file, cells, nc_rows, pcn>>

builder_vars == <<hourly, threehourly, weights_raw, weights_agg_hourly,
                  weights_final_hourly, csv_file, pcb>>

run_vars == <<future_df, batch_size, random_seed, weights_dict_exact,
              weights_dict_monthly, match_stats, batch_idx, result, result_df, pc>>

loader_vars == <<pr_table, args, saved>>

ncloader_vars == <<nc_file, cells, nc_rows, pcn>>

-----------------------------------------------------------------------------
(* Bounds of the model *)

\* longest future input of a single run
MaxRecords == 2
\* longest future input of each run when two runs are compared
MaxPairRecords == 2
\* largest batch size tried
MaxBatch == 2
\* most rows of the pr table of the database
MaxTableRows == 2

\* historical years and days, and the month and block-start hour of every
\* historical block
Years == {2001, 2002}
HistDays == {1, 2}
Hist == [month |-> 2, hour |-> 10]
\* block-start days and hours of future records, all in February 2030: day 3 has
\* no historical block, hour 13 has none in any month
FutureDays == {1, 2, 3}
FutureHours == {10, 13}
CellIds == {5210}
PrValues == {9}
Seeds == {42}

Runs == {1, 2}

-----------------------------------------------------------------------------
(* Arithmetic helpers *)

Abs(x) == IF x < 0 THEN -x ELSE x

Min(a, b) == IF a < b THEN a ELSE b

RECURSIVE SumSeq(_)
SumSeq(s) == IF s = <<>> THEN 0 ELSE Head(s) + SumSeq(Tail(s))

RECURSIVE ProdSeq(_)
ProdSeq(s) == IF s = <<>> THEN 1 ELSE Head(s) * ProdSeq(Tail(s))

\* [f(s[1]), ..., f(s[n])]
MapSeq(s, f(_)) == [i \in 1..Len(s) |-> f(s[i])]

\* the distinct values of s, in order of first appearance (Series.unique)
RECURSIVE Unique(_)
Unique(s) ==
    IF s = <<>> THEN <<>>
    ELSE LET rest == Unique(SubSeq(s, 1, Len(s) - 1))
             v == s[Len(s)]
         IN IF \E i \in 1..Len(rest) : rest[i] = v THEN rest ELSE Append(rest, v)

\* the elements of the sequence s, as a set
Range(s) == {s[i] : i \in 1..Len(s)}

\* lexicographic order on integer tuples of one length
RECURSIVE LexLess(_, _)
LexLess(a, b) ==
    IF a = <<>> THEN FALSE
    ELSE IF Head(a) # Head(b) THEN Head(a) < Head(b)
    ELSE LexLess(Tail(a), Tail(b))

\* the positions 1..Len(keys) in ascending order of keys, ties in input order
RECURSIVE InsertIdx(_, _, _)
InsertIdx(sorted, i, keys) ==
    IF sorted = <<>> THEN <<i>>
    ELSE IF LexLess(keys[i], keys[Head(sorted)])
         THEN <<i>> \o sorted
         ELSE <<Head(sorted)>> \o InsertIdx(Tail(sorted), i, keys)

RECURSIVE SortIdx(_, _)
SortIdx(n, keys) ==
    IF n = 0 THEN <<>> ELSE InsertIdx(SortIdx(n - 1, keys), n, keys)

\* stable sort of s by the integer-tuple key Key (DataFrame.sort_values)
SortByKey(s, Key(_)) ==
    LET keys == MapSeq(s, Key)
        perm == SortIdx(Len(s), keys)
    IN [i \in 1..Len(s) |-> s[perm[i]]]

\* num/den rounded to 4 decimals, as a count of ten-thousandths; ties go to the
\* even neighbour (numpy's round, printf's %.4f on an exact tie)
Round4(num, den) ==
    LET scaled == 10000 * num
        q == scaled \div den
        r2 == 2 * (scaled % den)
    IN IF r2 < den THEN q
       ELSE IF r2 > den THEN q + 1
       ELSE IF q % 2 = 0 THEN q ELSE q + 1

-----------------------------------------------------------------------------
(* Timestamps: [year, month, day, hour] *)

Time(y, m, d, h) == [year |-> y, month |-> m, day |-> d, hour |-> h]

IsLeap(y) == (y % 4 = 0 /\ y % 100 # 0) \/ y % 400 = 0

DaysInMonth(y, m) ==
    IF m = 2 THEN (IF IsLeap(y) THEN 29 ELSE 28)
    ELSE IF m \in {4, 6, 9, 11} THEN 30 ELSE 31

\* t + k hours, 0 <= k <= 2 (timedelta(hours=k), np.timedelta64(k, 'h'))
AddHours(t, k) ==
    IF t.hour + k < 24 THEN [t EXCEPT !.hour = t.hour + k]
    ELSE IF t.day < DaysInMonth(t.year, t.month)
         THEN [t EXCEPT !.hour = t.hour + k - 24, !.day = t.day + 1]
    ELSE IF t.month < 12
         THEN [t EXCEPT !.hour = t.hour + k - 24, !.day = 1, !.month = t.month + 1]
    ELSE [t EXCEPT !.hour = t.hour + k - 24, !.day = 1, !.month = 1, !.year = t.year + 1]

-----------------------------------------------------------------------------
(* proc_02.py: the climatology weight builder *)

\* the lookup with a missing hour read as one unit
hourly_value_missing_one(hourly_rows, hour_time) ==
    LET hourly_match == SelectSeq(hourly_rows, LAMBDA r : r.time = hour_time)
    IN IF Len(hourly_match) > 0 THEN hourly_match[1].pr ELSE 1

\* hourly[hourly['time'] == hour_time]: .iloc[0]['pr'] when a row matches, else 0.0
hourly_value(hourly_rows, hour_time) ==
    LET hourly_match == SelectSeq(hourly_rows, LAMBDA r : r.time = hour_time)
    IN IF Len(hourly_match) > 0 THEN hourly_match[1].pr ELSE 0

\* the label f"{year}-{month:02d}-{day:02d} {block_start.hour + i:02d}:00", kept as
\* the tuple of the four numbers it prints (the format is one-to-one on them)
hour_label(block_start, i) ==
    <<block_start.year, block_start.month, block_start.day, block_start.hour + i>>

\* the rows one 3-hour row contributes: none when its hourly sum is 0, else three
block_weights(hourly_rows, row_3h) ==
    LET block_start == row_3h.time
        hourly_values == [i \in 1..3 |-> hourly_value(hourly_rows, AddHours(block_start, i - 1))]
        hourly_sum == SumSeq(hourly_values)
    IN IF hourly_sum > 0
       THEN [k \in 1..3 |->
               [datetime |-> block_start,
                year |-> block_start.year,
                month |-> block_start.month,
                day |-> block_start.day,
                hour |-> block_start.hour,
                year_month_day_hour |-> hour_label(block_start, k - 1),
                hour_in_3h_block |-> k - 1,
                hourly_pr |-> hourly_values[k],
                block_total_pr |-> hourly_sum,
                threehourly_pr |-> row_3h.pr,
                weight |-> <<hourly_values[k], hourly_sum>>]]
       ELSE <<>>

RECURSIVE match_hourly_to_3hourly(_, _)
match_hourly_to_3hourly(hourly_rows, threehourly_rows) ==
    IF threehourly_rows = <<>> THEN <<>>
    ELSE block_weights(hourly_rows, Head(threehourly_rows))
         \o match_hourly_to_3hourly(hourly_rows, Tail(threehourly_rows))

\* the groupby key of aggregate_weights, as one integer tuple
agg_key(r) ==
    r.year_month_day_hour \o <<r.year, r.month, r.day, r.hour, r.hour_in_3h_block>>

\* the mean of the rationals ws, as <<num, den>>
mean_weight(ws) ==
    LET dens == [i \in 1..Len(ws) |-> ws[i][2]]
        P == ProdSeq(dens)
        num == SumSeq([i \in 1..Len(ws) |-> ws[i][1] * (P \div ws[i][2])])
    IN <<num, P * Len(ws)>>

\* one row per group, groups in ascending key order; mean and sums rounded to 4
\* decimals (the amounts are whole numbers here, so only the mean changes).
\* weight_std, which nothing reads, is left out.
aggregate_weights(df) ==
    LET keys == SortByKey(Unique(MapSeq(df, agg_key)), LAMBDA k : k)
        group(k) == SelectSeq(df, LAMBDA r : agg_key(r) = k)
        row(k) ==
            LET g == group(k)
                m == mean_weight([i \in 1..Len(g) |-> g[i].weight])
                weight_mean == Round4(m[1], m[2])
            IN [year_month_day_hour |-> g[1].year_month_day_hour,
                year |-> g[1].year,
                month |-> g[1].month,
                day |-> g[1].day,
                hour |-> g[1].hour,
                hour_in_3h_block |-> g[1].hour_in_3h_block,
                weight_mean |-> weight_mean,
                count |-> Len(g),
                total_hourly_pr |-> SumSeq([i \in 1..Len(g) |-> g[i].hourly_pr]),
                total_block_pr |-> SumSeq([i \in 1..Len(g) |-> g[i].block_total_pr]),
                weight |-> <<weight_mean, 10000>>]
    IN [i \in 1..Len(keys) |-> row(keys[i])]

\* the rows of block_data with a positive weight only
normalize_block_positive(block_data) == SelectSeq(block_data, LAMBDA r : r.weight[1] > 0)

\* block_data with its weights divided by their sum, when that sum is positive
normalize_block(block_data) ==
    LET total_weight == SumSeq([i \in 1..Len(block_data) |-> block_data[i].weight[1]])
    IN IF total_weight > 0
       THEN [i \in 1..Len(block_data) |->
               [block_data[i] EXCEPT !.weight = <<block_data[i].weight[1], total_weight>>]]
       ELSE block_data

\* the rows of one label: for hour_in_block 0, 1, 2 the rows of that slot, normalised
normalize_hour(df, hour) ==
    LET hour_data == SelectSeq(df, LAMBDA r : r.year_month_day_hour = hour)
        block(b) == LET block_data == SelectSeq(hour_data, LAMBDA r : r.hour_in_3h_block = b)
                    IN IF Len(block_data) > 0 THEN normalize_block(block_data) ELSE <<>>
    IN block(0) \o block(1) \o block(2)

RECURSIVE normalize_hours(_, _)
normalize_hours(df, unique_hours) ==
    IF unique_hours = <<>> THEN <<>>
    ELSE normalize_hour(df, Head(unique_hours)) \o normalize_hours(df, Tail(unique_hours))

\* Every label of unique_hours has a row, so the branch for an empty hour_data
\* (lines 151-166) is never taken.  pd.concat of no frame raises: df is not empty.
normalize_weights(df) ==
    normalize_hours(df, Unique(MapSeq(df, LAMBDA r : r.year_month_day_hour)))

\* the value '%.4f' prints for the rational w, as a count of ten-thousandths
format_4f(w) == Round4(w[1], w[2])

\* the rows of the weight table file
save_csv(df) ==
    LET with_weight == [i \in 1..Len(df) |-> [df[i] EXCEPT !.weight = <<df[i].weight_mean, 10000>>]]
        output_df == SortByKey(with_weight, LAMBDA r : <<r.year, r.month, r.day, r.hour>>)
    IN [i \in 1..Len(output_df) |->
          [year_month_day_hour |-> output_df[i].year_month_day_hour,
           year |-> output_df[i].year,
           month |-> output_df[i].month,
           day |-> output_df[i].day,
           hour |-> output_df[i].hour,
           hour_in_3h_block |-> output_df[i].hour_in_3h_block,
           weight |-> format_4f(output_df[i].weight)]]

-----------------------------------------------------------------------------
(* prcalc_03.py: the disaggregation engine *)

\* the draws one batch can make, and the raw values a draw can yield
RngDraws == 1..MaxBatch
RawValues == 0..(Cardinality(Years) - 1)

MatchLevels == {"EGZAKT", "HAVI", "EGYENLETES", "HIBA", "EGZAKT_AVG", "HAVI_AVG"}

\* reference_datetime None
NoneRef == <<0, 0, 0, 0>>

\* a timestamp slot of np.empty that nothing has written yet
NoTime == Time(0, 0, 0, 0)

\* the weight vector [1/3, 1/3, 1/3]: three numerators over one denominator
UniformWeights == <<1, 1, 1, 3>>

\* month-day-hour, each zero-filled to 2 digits and joined by '-': kept as the
\* tuple of the three numbers (zfill(2) is one-to-one on them)
key_exact(month, day, hour) == <<month, day, hour>>

\* the key of groupby(['month', 'hour'])
key_monthly(month, hour) == <<month, hour>>

\* groupby(key): key value -> the rows holding it, in file order
group_by(df, Key(_)) ==
    [k \in {Key(df[i]) : i \in 1..Len(df)} |-> SelectSeq(df, LAMBDA r : Key(r) = k)]

weights_groups_exact(df) == group_by(df, LAMBDA r : key_exact(r.month, r.day, r.hour))

weights_groups_monthly(df) == group_by(df, LAMBDA r : key_monthly(r.month, r.hour))

\* the future rows with their calendar columns and keys
future_keys(df) ==
    [i \in 1..Len(df) |->
        [cell_id |-> df[i].cell_id, time |-> df[i].time, pr |-> df[i].pr,
         month |-> df[i].time.month, day |-> df[i].time.day, hour |-> df[i].time.hour,
         key_exact |-> key_exact(df[i].time.month, df[i].time.day, df[i].time.hour),
         key_monthly |-> key_monthly(df[i].time.month, df[i].time.hour)]]

\* period_weights['year'].unique()
available_years(period_weights) == Unique(MapSeq(period_weights, LAMBDA r : r.year))

\* rng.choice(years) for the raw value the generator yields
rng_choice(years, raw) == years[(raw % Len(years)) + 1]

\* len(year_data) == 3 and set(year_data['hour_in_3h_block']) == {0, 1, 2}
complete_triple(year_data) ==
    Len(year_data) = 3 /\ {year_data[i].hour_in_3h_block : i \in 1..3} = {0, 1, 2}

\* the rows in file order
unsorted_year_data(year_data) == year_data

\* year_data.sort_values('hour_in_3h_block')
sort_by_hour_in_block(year_data) == SortByKey(year_data, LAMBDA r : <<r.hour_in_3h_block>>)

\* the mean weight per hour_in_3h_block over period_weights, divided by the sum of
\* the means: numerators over one denominator.  s[b] / c[b] is the mean of slot b.
average_weights(period_weights) ==
    LET slot(b) == SelectSeq(period_weights, LAMBDA r : r.hour_in_3h_block = b)
        s == [b \in 0..2 |-> SumSeq(MapSeq(slot(b), LAMBDA r : r.weight))]
        c == [b \in 0..2 |-> Len(slot(b))]
        D == c[0] * c[1] * c[2]
        m == [b \in 0..2 |-> s[b] * (D \div c[b])]
    IN <<m[0], m[1], m[2], m[0] + m[1] + m[2]>>

\* the defaults with the level of the other selector's last fallback
default_selection_hiba ==
    [weights |-> UniformWeights, match_level |-> "HIBA", ref_date |-> NoneRef]

\* what a record keeps when nothing is assigned to it: weights_array, match_levels
\* and ref_dates as they are allocated
default_selection ==
    [weights |-> UniformWeights, match_level |-> "EGYENLETES", ref_date |-> NoneRef]

\* the body of the loop of ultra_fast_weight_selection for one record, given the
\* raw value the next draw yields: [weights, match_level, ref_date]
select_with(period_weights, match_level, raw) ==
    LET years == available_years(period_weights)
        chosen_year == rng_choice(years, raw)
        year_data == SelectSeq(period_weights, LAMBDA r : r.year = chosen_year)
        year_data_sorted == sort_by_hour_in_block(year_data)
        avg == average_weights(period_weights)
        default == default_selection
    IN IF Len(years) = 0 THEN default
       ELSE IF complete_triple(year_data)
       THEN [weights |-> <<year_data_sorted[1].weight, year_data_sorted[2].weight,
                           year_data_sorted[3].weight, 10000>>,
             match_level |-> match_level,
             ref_date |-> year_data_sorted[1].year_month_day_hour]
       ELSE IF {period_weights[i].hour_in_3h_block : i \in 1..Len(period_weights)} = {0, 1, 2}
               /\ avg[4] > 0
       THEN [weights |-> avg,
             match_level |-> IF match_level = "EGZAKT" THEN "EGZAKT_AVG" ELSE "HAVI_AVG",
             ref_date |-> period_weights[1].year_month_day_hour]
       ELSE default

\* the exact level taken only when a candidate year of the group is complete
has_exact_complete(row, dict_exact) ==
    /\ row.key_exact \in DOMAIN dict_exact
    /\ \E y \in Range(available_years(dict_exact[row.key_exact])) :
          complete_triple(SelectSeq(dict_exact[row.key_exact], LAMBDA r : r.year = y))

\* does record row have candidates, and which
has_exact(row, dict_exact) == row.key_exact \in DOMAIN dict_exact

has_monthly(row, dict_monthly) == <<row.month, row.hour>> \in DOMAIN dict_monthly

\* does the loop body for row call rng.choice so that the generator moves on
draws(row, dict_exact, dict_monthly, advances) ==
    LET period_weights == IF has_exact(row, dict_exact) THEN dict_exact[row.key_exact]
                          ELSE IF has_monthly(row, dict_monthly)
                          THEN dict_monthly[<<row.month, row.hour>>]
                          ELSE <<>>
        n == Len(available_years(period_weights))
    IN n > 1 \/ (n = 1 /\ advances)

\* ultra_fast_weight_selection: the batch's records in order, one generator for
\* the batch; stream[k] is the raw value of the generator's k-th draw and used
\* counts the draws made so far.  One [weights, match_level, ref_date] per record.
RECURSIVE ultra_fast_from(_, _, _, _, _, _)
ultra_fast_from(batch_df, dict_exact, dict_monthly, stream, advances, used) ==
    IF batch_df = <<>> THEN <<>>
    ELSE LET row == Head(batch_df)
             drew == draws(row, dict_exact, dict_monthly, advances)
             raw == IF drew THEN stream[used + 1] ELSE 0
             one == IF has_exact(row, dict_exact)
                    THEN select_with(dict_exact[row.key_exact], "EGZAKT", raw)
                    ELSE IF has_monthly(row, dict_monthly)
                    THEN select_with(dict_monthly[<<row.month, row.hour>>], "HAVI", raw)
                    ELSE default_selection
         IN <<one>> \o ultra_fast_from(Tail(batch_df), dict_exact, dict_monthly, stream,
                                       advances, IF drew THEN used + 1 ELSE used)

ultra_fast_weight_selection(batch_df, dict_exact, dict_monthly, stream, advances) ==
    ultra_fast_from(batch_df, dict_exact, dict_monthly, stream, advances, 0)

\* how many draws the batch makes
draws_in(batch_df, dict_exact, dict_monthly, advances) ==
    Cardinality({i \in 1..Len(batch_df) : draws(batch_df[i], dict_exact, dict_monthly, advances)})

\* a generator made without a seed: what it yields is tied to no earlier draw
rng_unseeded(seed, stream, n_draws) ==
    \A k \in DOMAIN stream : k > n_draws => stream[k] = 0

\* np.random.default_rng(seed): the generator is a function of its seed.  stream
\* is what a generator made with seed yields in its first n_draws draws: a value
\* already drawn under that seed and draw number comes again, one never drawn is
\* any raw value (and the values past n_draws, which nothing reads, are 0).
default_rng(seed, stream, n_draws) ==
    \A k \in DOMAIN stream :
        IF k <= n_draws
        THEN <<seed, k>> \in DOMAIN pcg => stream[k] = pcg[<<seed, k>>]
        ELSE stream[k] = 0

\* np.arange(random_seed, random_seed + n_records)[start_idx], the seed of the
\* generator ultra_fast_weight_selection makes for the batch starting at start_idx
\* (start_idx counted from 0)
batch_rng_seed(seed, start_idx) == seed + start_idx

\* (n_records + batch_size - 1) // batch_size
n_batches(n_records, size) == (n_records + size - 1) \div size

\* the value of an option that is not None
the(option) == CHOOSE v \in option : TRUE

\* the rows a SELECT with LIMIT n returns of rows: SQLite puts no upper bound
\* when n is negative
sql_limit(rows, n) == IF n < 0 THEN rows ELSE SubSeq(rows, 1, Min(n, Len(rows)))

\* the records of the query load_future_precipitation builds: `if limit_rows`
\* (not None and not 0) comes first and its query has no cell condition; the
\* cell condition is in the query of the elif branch only
load_future_precipitation(table, limit_rows, cell_id) ==
    LET positive == SelectSeq(table, LAMBDA r : r.pr > 0)
    IN IF limit_rows # {} /\ the(limit_rows) # 0
       THEN sql_limit(positive, the(limit_rows))
       ELSE IF cell_id # {}
       THEN SelectSeq(positive, LAMBDA r : r.cell_id \in cell_id)
       ELSE positive

\* <<whole part and digits decimals of num/den as one integer, the remainder left>>
RECURSIVE Scaled(_, _, _)
Scaled(num, den, digits) ==
    IF digits = 0 THEN <<num \div den, num % den>>
    ELSE LET prev == Scaled(num, den, digits - 1)
         IN <<prev[1] * 10 + (prev[2] * 10) \div den, (prev[2] * 10) % den>>

\* the value '%.6f' prints for the rational w, as a count of millionths
format_6f(w) ==
    LET sc == Scaled(w[1], w[2], 6)
    IN IF 2 * sc[2] < w[2] THEN sc[1]
       ELSE IF 2 * sc[2] > w[2] THEN sc[1] + 1
       ELSE IF sc[1] % 2 = 0 THEN sc[1] ELSE sc[1] + 1

\* save_results: the directory, results or results/cell_<id>, and the rows of the
\* CSV file written there, floats with 6 decimals
save_results(df, cella_id) ==
    [dir |-> IF cella_id # {} THEN <<"results", "cell", the(cella_id)>> ELSE <<"results">>,
     rows |-> [p \in 1..Len(df) |->
                 [cell_id |-> df[p].cell_id,
                  time_3hourly |-> df[p].time_3hourly,
                  time_hourly |-> df[p].time_hourly,
                  pr_3hourly_original |-> format_6f(<<df[p].pr_3hourly_original, 1>>),
                  hour_in_3h_block |-> df[p].hour_in_3h_block,
                  weight_used |-> format_6f(df[p].weight_used),
                  match_level |-> df[p].match_level,
                  reference_datetime |-> df[p].reference_datetime,
                  pr_hourly_disaggregated |-> format_6f(df[p].pr_hourly_disaggregated)]]]

-----------------------------------------------------------------------------
(* Inputs *)

\* the ascending sequence of a set of integer tuples
RECURSIVE SeqOfSet(_)
SeqOfSet(S) ==
    IF S = {} THEN <<>>
    ELSE LET least == CHOOSE x \in S : \A y \in S \ {x} : LexLess(x, y)
         IN <<least>> \o SeqOfSet(S \ {least})

\* the historical blocks, <<year, day>>, in time order
Blocks == SeqOfSet(Years \X HistDays)

\* what the hourly series holds for the three hours of a block (0: no row, the
\* loader keeps pr > 0 only); NoBlock: the 3-hour series has no row for the block
HourlyShapes == {<<0, 0, 0>>, <<1, 1, 1>>, <<2, 1, 0>>}

NoBlock == <<>>

HistoryOptions == [1..Len(Blocks) -> HourlyShapes \cup {NoBlock}]

block_time(b) == Time(Blocks[b][1], Hist.month, Blocks[b][2], Hist.hour)

RECURSIVE Flatten(_)
Flatten(ss) == IF ss = <<>> THEN <<>> ELSE Head(ss) \o Flatten(Tail(ss))

\* the hourly rows of a history: one per hour with a positive amount
hourly_rows_of(opt) ==
    Flatten([b \in 1..Len(Blocks) |->
        IF opt[b] = NoBlock THEN <<>>
        ELSE Flatten([k \in 1..3 |->
                IF opt[b][k] > 0
                THEN <<[time |-> AddHours(block_time(b), k - 1), pr |-> opt[b][k]]>>
                ELSE <<>>])])

\* the 3-hour rows of a history: the block total, or 1 when no hourly row of the
\* block survives (the two series are separate files)
threehourly_rows_of(opt) ==
    Flatten([b \in 1..Len(Blocks) |->
        IF opt[b] = NoBlock THEN <<>>
        ELSE <<[time |-> block_time(b),
                pr |-> IF SumSeq(opt[b]) > 0 THEN SumSeq(opt[b]) ELSE 1]>>])

\* a weight table file that did not come from the builder: per block no row, a
\* full triple or the rows of slots 0 and 1 only; weights fixed per block
TableShapes == {"none", "full", "part"}

\* the tables of the fallback paths: per block no row, the rows of slots 0 and 1
\* only, or a full triple of weights 0.0000
FallbackShapes == {"none", "part", "zero"}

FallbackTableOptions == [1..Len(Blocks) -> FallbackShapes]

TableOptions == [1..Len(Blocks) -> TableShapes]

\* the tables two runs are compared on: full triples, on day 1
PairTableOptions ==
    {opt \in [1..Len(Blocks) -> {"none", "full"}] :
        \A b \in 1..Len(Blocks) : Blocks[b][2] # 1 => opt[b] = "none"}

table_weight(b, k) ==
    LET triples == <<<<5000, 3000, 2000>>, <<1000, 2000, 7000>>,
                     <<2500, 2500, 5000>>, <<0, 4000, 6000>>>>
    IN triples[((b - 1) % 4) + 1][k + 1]

table_row(b, k) ==
    [year_month_day_hour |-> hour_label(block_time(b), k),
     year |-> Blocks[b][1], month |-> Hist.month, day |-> Blocks[b][2], hour |-> Hist.hour,
     hour_in_3h_block |-> k, weight |-> table_weight(b, k)]

\* the rows of the file, blocks in time order; descending: slots 2, 1, 0 in a block
table_rows_of(opt, descending) ==
    Flatten([b \in 1..Len(Blocks) |->
        LET slots == IF opt[b] = "none" THEN <<>>
                     ELSE IF opt[b] \in {"full", "zero"} THEN <<0, 1, 2>> ELSE <<0, 1>>
            row(k) == IF opt[b] = "zero" THEN [table_row(b, k) EXCEPT !.weight = 0]
                      ELSE table_row(b, k)
        IN [i \in 1..Len(slots) |->
              row(IF descending THEN slots[Len(slots) + 1 - i] ELSE slots[i])]])

\* block starts of future records
FutureTimes ==
    {Time(2030, Hist.month, d, Hist.hour) : d \in FutureDays}
    \cup {Time(2030, Hist.month, 1, h) : h \in FutureHours}

\* the same, when two runs are compared: the weight table then holds day 1 only
PairFutureTimes ==
    {Time(2030, Hist.month, d, Hist.hour) : d \in {1, 3}}
    \cup {Time(2030, Hist.month, 1, h) : h \in FutureHours}

\* ordered future inputs of at most n records at the given block starts; (time,
\* cell_id) is the primary key of the pr table, so no two records share it
FutureInputs(times, n) ==
    UNION {{f \in [1..len -> [cell_id : CellIds, time : times, pr : PrValues]] :
              \A i, j \in 1..len :
                  i # j => <<f[i].cell_id, f[i].time>> # <<f[j].cell_id, f[j].time>>}
           : len \in 0..n}

\* the pr table of the database: cells, block starts and amounts of its rows
\* (pr is REAL NOT NULL, so a row can hold 0)
LoaderCellIds == {5210, 5211}

LoaderTimes == {Time(2030, Hist.month, 1, h) : h \in FutureHours}

LoaderAmounts == {0, 9}

\* the tables of at most n rows, in storage order; (time, cell_id) is the primary key
PrTables(n) ==
    UNION {{t \in [1..len -> [cell_id : LoaderCellIds, time : LoaderTimes, pr : LoaderAmounts]] :
              \A i, j \in 1..len :
                  i # j => <<t[i].cell_id, t[i].time>> # <<t[j].cell_id, t[j].time>>}
           : len \in 0..n}

\* --limit-rows and --cell-id: not given, or an integer
LimitOptions == {{}} \cup {{l} : l \in 0..1}

CellOptions == {{}} \cup {{c} : c \in LoaderCellIds}

-----------------------------------------------------------------------------
(* ncloader.py: the netCDF files into the database *)

\* the grid of the netCDF variables: 412 rows (0..411) and a few columns, lat
\* growing with the row and lon with the column by step hundredths of a degree
Grid == [rows |-> 412, cols |-> 3, step |-> 11]

\* the frame store_celldata searches, in hundredths of a degree
Frame == [min_lon |-> 1974, max_lon |-> 2002, min_lat |-> 4798, max_lat |-> 4818]

\* dataset.variables['lat'][:] and ['lon'][:] at [sor, osz]
lats(file, sor, osz) == file.lat0 + Grid.step * sor

lons(file, sor, osz) == file.lon0 + Grid.step * osz

\* np.where(mask): the <<sor, osz>> inside the frame, in row-major order
mask_positions(file) ==
    SeqOfSet({so \in (0..(Grid.rows - 1)) \X (0..(Grid.cols - 1)) :
                 /\ lats(file, so[1], so[2]) >= Frame.min_lat
                 /\ lats(file, so[1], so[2]) <= Frame.max_lat
                 /\ lons(file, so[1], so[2]) >= Frame.min_lon
                 /\ lons(file, so[1], so[2]) <= Frame.max_lon})

\* id = (osz * 1000) + sor_idx with sor_idx = 411 - sor
cell_id_of(sor, osz) == (osz * 1000) + (411 - sor)

\* the rows store_celldata inserts into cells
store_celldata(file) ==
    LET where == mask_positions(file)
    IN [i \in 1..Len(where) |->
          [cell_id |-> cell_id_of(where[i][1], where[i][2]),
           lon |-> lons(file, where[i][1], where[i][2]),
           lat |-> lats(file, where[i][1], where[i][2])]]

\* timestamp - timedelta(days=1)
PrevDay(t) ==
    IF t.day > 1 THEN [t EXCEPT !.day = t.day - 1]
    ELSE IF t.month > 1
         THEN [t EXCEPT !.month = t.month - 1, !.day = DaysInMonth(t.year, t.month - 1)]
    ELSE [t EXCEPT !.year = t.year - 1, !.month = 12, !.day = 31]

\* hour 0 becomes 23 of the day before, any other hour the hour before; the
\* minutes, set to 0, are not kept in a timestamp here
time_standardizer(timestamp) ==
    IF timestamp.hour = 0 THEN [PrevDay(timestamp) EXCEPT !.hour = 23]
    ELSE [timestamp EXCEPT !.hour = timestamp.hour - 1]

\* dataset.variables[ds_name][t][si][oi]: every grid position holds a value of its
\* own, the same at every time
nc_value(t, si, oi) == 1 + si * Grid.cols + oi

\* the rows read_netcdf inserts for cell_id, one per time of the file, each with
\* the indices si and oi the value was read at
read_netcdf(file, ds_name, cell_id) ==
    LET si == cell_id % 1000
        oi == cell_id \div 1000
    IN [t \in 1..Len(file.times) |->
          [ds_name |-> ds_name,
           time |-> time_standardizer(file.times[t]),
           cell_id |-> cell_id,
           data |-> IF ds_name = "pr" THEN nc_value(t, si, oi) * 3600 ELSE nc_value(t, si, oi),
           si |-> si,
           oi |-> oi]]

\* the files of the directory, by the data source name their names begin with
\* (a tas file, converted to Celsius, is not among them)
DataSources == <<"pr", "rsds">>

\* CELLS of main: SELECT cell_id, lon, lat FROM cells LIMIT 8
CELLS == sql_limit(cells, 8)

\* the netCDF files ncloader is given: where the grid lies against the frame, and
\* the times of the file
NcFiles ==
    {[lat0 |-> Frame.min_lat - Grid.step * s + d,
      lon0 |-> Frame.min_lon - Grid.step * c + e,
      times |-> ts] :
        s \in {0, 1, 205, 410}, d \in {0, 5}, c \in {0, 1}, e \in {0, 5},
        ts \in {<<Time(2030, 2, 1, 1)>>, <<Time(2030, 3, 1, 0), Time(2030, 3, 1, 3)>>}}

-----------------------------------------------------------------------------
(* proc_02.py main, step by step *)

\* step 2: match_hourly_to_3hourly
proc02_match ==
    /\ pcb = "loaded"
    /\ weights_raw' = match_hourly_to_3hourly(hourly, threehourly)
    /\ pcb' = "matched"
    /\ UNCHANGED <<hourly, threehourly, weights_agg_hourly, weights_final_hourly, csv_file>>
    /\ UNCHANGED <<weights_df, pcg, choice_advances>>
    /\ UNCHANGED run_vars
    /\ UNCHANGED loader_vars
    /\ UNCHANGED ncloader_vars

\* no block gave an observation: the frame has no column, and main's report of
\* weights_raw['datetime'] raises
proc02_fail ==
    /\ pcb = "matched"
    /\ weights_raw = <<>>
    /\ pcb' = "failed"
    /\ UNCHANGED <<hourly, threehourly, weights_raw, weights_agg_hourly,
                   weights_final_hourly, csv_file>>
    /\ UNCHANGED <<weights_df, pcg, choice_advances>>
    /\ UNCHANGED run_vars
    /\ UNCHANGED loader_vars
    /\ UNCHANGED ncloader_vars

\* step 3: aggregate_weights
proc02_aggregate ==
    /\ pcb = "matched"
    /\ weights_raw # <<>>
    /\ weights_agg_hourly' = aggregate_weights(weights_raw)
    /\ pcb' = "aggregated"
    /\ UNCHANGED <<hourly, threehourly, weights_raw, weights_final_hourly, csv_file>>
    /\ UNCHANGED <<weights_df, pcg, choice_advances>>
    /\ UNCHANGED run_vars
    /\ UNCHANGED loader_vars
    /\ UNCHANGED ncloader_vars

\* step 4: normalize_weights
proc02_normalize ==
    /\ pcb = "aggregated"
    /\ weights_final_hourly' = normalize_weights(weights_agg_hourly)
    /\ pcb' = "normalized"
    /\ UNCHANGED <<hourly, threehourly, weights_raw, weights_agg_hourly, csv_file>>
    /\ UNCHANGED <<weights_df, pcg, choice_advances>>
    /\ UNCHANGED run_vars
    /\ UNCHANGED loader_vars
    /\ UNCHANGED ncloader_vars

\* step 5: save_csv
proc02_save ==
    /\ pcb = "normalized"
    /\ csv_file' = save_csv(weights_final_hourly)
    /\ pcb' = "saved"
    /\ UNCHANGED <<hourly, threehourly, weights_raw, weights_agg_hourly, weights_final_hourly>>
    /\ UNCHANGED <<weights_df, pcg, choice_advances>>
    /\ UNCHANGED run_vars
    /\ UNCHANGED loader_vars
    /\ UNCHANGED ncloader_vars

-----------------------------------------------------------------------------
(* prcalc_03.py main, step by step, for run r.  Run 2 starts when run 1 is done. *)

\* the future inputs a run can be given
future_inputs ==
    IF pc[2] = "off" THEN FutureInputs(FutureTimes, MaxRecords)
    ELSE FutureInputs(PairFutureTimes, MaxPairRecords)

\* steps 1 and 2: the weight table is read from the file, the future records from
\* the database; the seed comes from the command line.  batch_size is 10000 in
\* the source (line 329) and an input here.
run_load(r) ==
    /\ pc[r] = "start"
    /\ pcb = "saved"
    /\ r = 2 => pc[1] = "done"
    /\ weights_df' = csv_file
    /\ \E f \in future_inputs, size \in 1..MaxBatch, seed \in Seeds :
          /\ future_df' = [future_df EXCEPT ![r] = f]
          /\ batch_size' = [batch_size EXCEPT ![r] = size]
          /\ random_seed' = [random_seed EXCEPT ![r] = seed]
    /\ pc' = [pc EXCEPT ![r] = "loaded"]
    /\ UNCHANGED builder_vars
    /\ UNCHANGED loader_vars
    /\ UNCHANGED ncloader_vars
    /\ UNCHANGED <<pcg, choice_advances, weights_dict_exact, weights_dict_monthly,
                   match_stats, batch_idx, result, result_df>>

\* step 3: determine_period_mapping, and the dictionaries made of its groups
run_mapping(r) ==
    /\ pc[r] = "loaded"
    /\ future_df' = [future_df EXCEPT ![r] = future_keys(future_df[r])]
    /\ weights_dict_exact' = [weights_dict_exact EXCEPT ![r] = weights_groups_exact(weights_df)]
    /\ weights_dict_monthly' = [weights_dict_monthly EXCEPT ![r] = weights_groups_monthly(weights_df)]
    /\ pc' = [pc EXCEPT ![r] = "mapped"]
    /\ UNCHANGED builder_vars
    /\ UNCHANGED loader_vars
    /\ UNCHANGED ncloader_vars
    /\ UNCHANGED <<weights_df, pcg, choice_advances, batch_size, random_seed,
                   match_stats, batch_idx, result, result_df>>

\* the result columns with the two lists allocated at full length as well
empty_result_padded(n_records) ==
    [cell_ids |-> [p \in 1..(3 * n_records) |-> 0],
     times_3h |-> [p \in 1..(3 * n_records) |-> NoTime],
     times_1h |-> [p \in 1..(3 * n_records) |-> NoTime],
     pr_3h |-> [p \in 1..(3 * n_records) |-> 0],
     pr_1h |-> [p \in 1..(3 * n_records) |-> <<0, 1>>],
     hours |-> [p \in 1..(3 * n_records) |-> 0],
     weights |-> [p \in 1..(3 * n_records) |-> <<0, 1>>],
     match_levels |-> [p \in 1..(3 * n_records) |-> "EGYENLETES"],
     ref_dates |-> [p \in 1..(3 * n_records) |-> NoneRef]]

\* the result columns as allocated: zeros, unwritten timestamps, two empty lists
empty_result(n_records) ==
    [cell_ids |-> [p \in 1..(3 * n_records) |-> 0],
     times_3h |-> [p \in 1..(3 * n_records) |-> NoTime],
     times_1h |-> [p \in 1..(3 * n_records) |-> NoTime],
     pr_3h |-> [p \in 1..(3 * n_records) |-> 0],
     pr_1h |-> [p \in 1..(3 * n_records) |-> <<0, 1>>],
     hours |-> [p \in 1..(3 * n_records) |-> 0],
     weights |-> [p \in 1..(3 * n_records) |-> <<0, 1>>],
     match_levels |-> <<>>,
     ref_dates |-> <<>>]

\* step 4, before the loop: the histogram at zero, the columns allocated
run_begin(r) ==
    /\ pc[r] = "mapped"
    /\ match_stats' = [match_stats EXCEPT ![r] = [l \in MatchLevels |-> 0]]
    /\ result' = [result EXCEPT ![r] = empty_result(Len(future_df[r]))]
    /\ batch_idx' = [batch_idx EXCEPT ![r] = 0]
    /\ pc' = [pc EXCEPT ![r] = "batches"]
    /\ UNCHANGED builder_vars
    /\ UNCHANGED loader_vars
    /\ UNCHANGED ncloader_vars
    /\ UNCHANGED <<weights_df, pcg, choice_advances, future_df, batch_size, random_seed,
                   weights_dict_exact, weights_dict_monthly, result_df>>

\* the position counted within the batch, not within the input
result_idx_in_batch(start_idx, i) == i * 3

\* the first of the three result positions of record i of the batch (from 0)
result_idx(start_idx, i) == (start_idx + i) * 3

\* the columns after the batch's records are written: position p (from 1) gets
\* the value of the record i and hour_offset with result_idx + hour_offset = p - 1
fill_batch(res, start_idx, batch_df, selected) ==
    LET hit(p) == {<<i, h>> \in (0..(Len(batch_df) - 1)) \X (0..2) :
                      result_idx(start_idx, i) + h = p - 1}
        src(p) == CHOOSE ih \in hit(p) : TRUE
        rec(p) == batch_df[src(p)[1] + 1]
        sel(p) == selected[src(p)[1] + 1]
        off(p) == src(p)[2]
        put(col, val(_)) == [p \in DOMAIN col |-> IF hit(p) # {} THEN val(p) ELSE col[p]]
    IN [cell_ids |-> put(res.cell_ids, LAMBDA p : rec(p).cell_id),
        times_3h |-> put(res.times_3h, LAMBDA p : rec(p).time),
        times_1h |-> put(res.times_1h, LAMBDA p : AddHours(rec(p).time, off(p))),
        pr_3h |-> put(res.pr_3h, LAMBDA p : rec(p).pr),
        pr_1h |-> put(res.pr_1h, LAMBDA p : <<rec(p).pr * sel(p).weights[off(p) + 1],
                                               sel(p).weights[4]>>),
        hours |-> put(res.hours, LAMBDA p : off(p)),
        weights |-> put(res.weights, LAMBDA p : <<sel(p).weights[off(p) + 1], sel(p).weights[4]>>),
        match_levels |-> res.match_levels
            \o Flatten([i \in 1..Len(batch_df) |-> [h \in 1..3 |-> selected[i].match_level]]),
        ref_dates |-> res.ref_dates
            \o Flatten([i \in 1..Len(batch_df) |-> [h \in 1..3 |-> selected[i].ref_date]])]

\* the histogram counting the output rows of the batch, three per record
count_rows(stats, selected) ==
    [l \in DOMAIN stats |->
        stats[l] + 3 * Cardinality({i \in 1..Len(selected) : selected[i].match_level = l})]

\* the histogram after a batch
count_levels(stats, selected) ==
    [l \in DOMAIN stats |->
        stats[l] + Cardinality({i \in 1..Len(selected) : selected[i].match_level = l})]

\* an index whose groups the selection sorted in place
index_sorted_in_place(dict) == [k \in DOMAIN dict |-> sort_by_hour_in_block(dict[k])]

\* an index after ultra_fast_weight_selection went over a batch: boolean indexing
\* (year_data), sort_values and groupby().mean() each return a new frame and the
\* function assigns to none of the index's frames, so the index is as it was
index_after_selection(dict) == dict

\* step 4, one pass of the batch loop.  The batch's generator is made from the
\* seed of the batch's first record.
run_batch(r) ==
    /\ pc[r] = "batches"
    /\ batch_idx[r] < n_batches(Len(future_df[r]), batch_size[r])
    /\ LET n_records == Len(future_df[r])
           start_idx == batch_idx[r] * batch_size[r]
           end_idx == Min(start_idx + batch_size[r], n_records)
           batch_df == SubSeq(future_df[r], start_idx + 1, end_idx)
           seed == batch_rng_seed(random_seed[r], start_idx)
           n_draws == draws_in(batch_df, weights_dict_exact[r], weights_dict_monthly[r],
                               choice_advances)
       IN \E stream \in [RngDraws -> RawValues] :
             /\ default_rng(seed, stream, n_draws)
             /\ pcg' = [sk \in DOMAIN pcg \cup {<<seed, k>> : k \in 1..n_draws} |->
                          IF sk[1] = seed /\ sk[2] <= n_draws THEN stream[sk[2]] ELSE pcg[sk]]
             /\ \E selected \in {ultra_fast_weight_selection(batch_df, weights_dict_exact[r],
                                    weights_dict_monthly[r], stream, choice_advances)} :
                   /\ match_stats' = [match_stats EXCEPT ![r] = count_levels(@, selected)]
                   /\ result' = [result EXCEPT ![r] = fill_batch(@, start_idx, batch_df, selected)]
    /\ weights_dict_exact' = [weights_dict_exact EXCEPT ![r] = index_after_selection(@)]
    /\ weights_dict_monthly' = [weights_dict_monthly EXCEPT ![r] = index_after_selection(@)]
    /\ batch_idx' = [batch_idx EXCEPT ![r] = @ + 1]
    /\ UNCHANGED builder_vars
    /\ UNCHANGED loader_vars
    /\ UNCHANGED ncloader_vars
    /\ UNCHANGED <<weights_df, choice_advances, future_df, batch_size, random_seed,
                   result_df, pc>>

\* the data frame of the result columns
build_result_df(res) ==
    [p \in DOMAIN res.cell_ids |->
        [cell_id |-> res.cell_ids[p],
         time_3hourly |-> res.times_3h[p],
         time_hourly |-> res.times_1h[p],
         pr_3hourly_original |-> res.pr_3h[p],
         hour_in_3h_block |-> res.hours[p],
         weight_used |-> res.weights[p],
         match_level |-> res.match_levels[p],
         reference_datetime |-> res.ref_dates[p],
         pr_hourly_disaggregated |-> res.pr_1h[p]]]

\* step 4, after the loop: the data frame is returned
run_finish(r) ==
    /\ pc[r] = "batches"
    /\ batch_idx[r] = n_batches(Len(future_df[r]), batch_size[r])
    /\ result_df' = [result_df EXCEPT ![r] = build_result_df(result[r])]
    /\ pc' = [pc EXCEPT ![r] = "done"]
    /\ UNCHANGED builder_vars
    /\ UNCHANGED loader_vars
    /\ UNCHANGED ncloader_vars
    /\ UNCHANGED <<weights_df, pcg, choice_advances, future_df, batch_size, random_seed,
                   weights_dict_exact, weights_dict_monthly, match_stats, batch_idx, result>>

-----------------------------------------------------------------------------
(* Specifications *)

\* no database and no filter: the future records are given to the run as they are
InitArgs ==
    /\ pr_table = <<>>
    /\ args = [limit_rows |-> {}, cell_id |-> {}]
    /\ saved = <<>>

\* ncloader is not run: the database is given
InitNoGrid ==
    /\ nc_file = [lat0 |-> 0, lon0 |-> 0, times |-> <<>>]
    /\ cells = <<>>
    /\ nc_rows = <<>>
    /\ pcn = [at |-> "off", file |-> 0, cell |-> 0]

InitRuns ==
    /\ weights_df = <<>>
    /\ pcg = <<>>
    /\ choice_advances \in BOOLEAN
    /\ future_df = [r \in Runs |-> <<>>]
    /\ batch_size = [r \in Runs |-> 1]
    /\ random_seed = [r \in Runs |-> 0]
    /\ weights_dict_exact = [r \in Runs |-> <<>>]
    /\ weights_dict_monthly = [r \in Runs |-> <<>>]
    /\ match_stats = [r \in Runs |-> [l \in MatchLevels |-> 0]]
    /\ batch_idx = [r \in Runs |-> 0]
    /\ result = [r \in Runs |-> empty_result(0)]
    /\ result_df = [r \in Runs |-> <<>>]

InitNoBuilder ==
    /\ hourly = <<>>
    /\ threehourly = <<>>
    /\ weights_raw = <<>>
    /\ weights_agg_hourly = <<>>
    /\ weights_final_hourly = <<>>
    /\ pcb = "saved"

\* the builder runs on a history, then one run of the engine on its file
Init ==
    /\ \E opt \in HistoryOptions :
          /\ hourly = hourly_rows_of(opt)
          /\ threehourly = threehourly_rows_of(opt)
    /\ weights_raw = <<>>
    /\ weights_agg_hourly = <<>>
    /\ weights_final_hourly = <<>>
    /\ csv_file = <<>>
    /\ pcb = "loaded"
    /\ InitRuns
    /\ InitArgs
    /\ InitNoGrid
    /\ pc = [r \in Runs |-> IF r = 1 THEN "start" ELSE "off"]

Next ==
    \/ proc02_match
    \/ proc02_fail
    \/ proc02_aggregate
    \/ proc02_normalize
    \/ proc02_save
    \/ run_load(1)
    \/ run_mapping(1)
    \/ run_begin(1)
    \/ run_batch(1)
    \/ run_finish(1)

Spec == Init /\ [][Next]_vars

\* the builder alone
NextBuilder ==
    \/ proc02_match
    \/ proc02_fail
    \/ proc02_aggregate
    \/ proc02_normalize
    \/ proc02_save

SpecBuilder == Init /\ [][NextBuilder]_vars

\* one run of the engine on a weight table file of any content
InitSampler ==
    /\ InitNoBuilder
    /\ \E opt \in TableOptions, descending \in BOOLEAN :
          csv_file = table_rows_of(opt, descending)
    /\ InitRuns
    /\ InitArgs
    /\ InitNoGrid
    /\ pc = [r \in Runs |-> IF r = 1 THEN "start" ELSE "off"]

NextSampler ==
    \/ run_load(1)
    \/ run_mapping(1)
    \/ run_begin(1)
    \/ run_batch(1)
    \/ run_finish(1)

SpecSampler == InitSampler /\ [][NextSampler]_vars

\* one run of the engine on a weight table file with incomplete or all-zero blocks
InitFallback ==
    /\ InitNoBuilder
    /\ \E opt \in FallbackTableOptions : csv_file = table_rows_of(opt, FALSE)
    /\ InitRuns
    /\ InitArgs
    /\ InitNoGrid
    /\ pc = [r \in Runs |-> IF r = 1 THEN "start" ELSE "off"]

NextFallback ==
    \/ run_load(1)
    \/ run_mapping(1)
    \/ run_begin(1)
    \/ run_batch(1)
    \/ run_finish(1)

SpecFallback == InitFallback /\ [][NextFallback]_vars

\* steps 1 and 2 of main with the database read: the records are what
\* load_future_precipitation returns for --limit-rows and --cell-id
main_load ==
    /\ pc[1] = "start"
    /\ pcb = "saved"
    /\ weights_df' = csv_file
    /\ future_df' = [future_df EXCEPT
                        ![1] = load_future_precipitation(pr_table, args.limit_rows, args.cell_id)]
    /\ \E size \in 1..MaxBatch, seed \in Seeds :
          /\ batch_size' = [batch_size EXCEPT ![1] = size]
          /\ random_seed' = [random_seed EXCEPT ![1] = seed]
    /\ pc' = [pc EXCEPT ![1] = "loaded"]
    /\ UNCHANGED builder_vars
    /\ UNCHANGED loader_vars
    /\ UNCHANGED ncloader_vars
    /\ UNCHANGED <<pcg, choice_advances, weights_dict_exact, weights_dict_monthly,
                   match_stats, batch_idx, result, result_df>>

\* step 5 of main: save_results with --cell-id
main_save ==
    /\ pc[1] = "done"
    /\ saved' = save_results(result_df[1], args.cell_id)
    /\ pc' = [pc EXCEPT ![1] = "saved"]
    /\ UNCHANGED builder_vars
    /\ UNCHANGED <<pr_table, args>>
    /\ UNCHANGED ncloader_vars
    /\ UNCHANGED <<weights_df, pcg, choice_advances, future_df, batch_size, random_seed,
                   weights_dict_exact, weights_dict_monthly, match_stats, batch_idx,
                   result, result_df>>

\* one run of the engine from the database to the saved file, on an empty weight
\* table
InitLoader ==
    /\ InitNoBuilder
    /\ csv_file = <<>>
    /\ InitRuns
    /\ pr_table \in PrTables(MaxTableRows)
    /\ args \in [limit_rows : LimitOptions, cell_id : CellOptions]
    /\ saved = <<>>
    /\ InitNoGrid
    /\ pc = [r \in Runs |-> IF r = 1 THEN "start" ELSE "off"]

NextLoader ==
    \/ main_load
    \/ run_mapping(1)
    \/ run_begin(1)
    \/ run_batch(1)
    \/ run_finish(1)
    \/ main_save

SpecLoader == InitLoader /\ [][NextLoader]_vars

\* ncloader main: the tables are created and store_celldata fills cells
nc_store ==
    /\ pcn.at = "start"
    /\ cells' = store_celldata(nc_file)
    /\ pcn' = [at |-> "reading", file |-> 1, cell |-> 1]
    /\ UNCHANGED <<nc_file, nc_rows>>
    /\ UNCHANGED builder_vars
    /\ UNCHANGED run_vars
    /\ UNCHANGED loader_vars
    /\ UNCHANGED <<weights_df, pcg, choice_advances>>

\* ncloader main: read_netcdf for the next cell of CELLS of the next file
nc_read ==
    /\ pcn.at = "reading"
    /\ pcn.file <= Len(DataSources)
    /\ pcn.cell <= Len(CELLS)
    /\ nc_rows' = nc_rows \o read_netcdf(nc_file, DataSources[pcn.file], CELLS[pcn.cell].cell_id)
    /\ pcn' = IF pcn.cell < Len(CELLS) THEN [pcn EXCEPT !.cell = pcn.cell + 1]
              ELSE [pcn EXCEPT !.file = pcn.file + 1, !.cell = 1]
    /\ UNCHANGED <<nc_file, cells>>
    /\ UNCHANGED builder_vars
    /\ UNCHANGED run_vars
    /\ UNCHANGED loader_vars
    /\ UNCHANGED <<weights_df, pcg, choice_advances>>

\* ncloader main: every file is read for every cell, the database is committed
nc_finish ==
    /\ pcn.at = "reading"
    /\ pcn.file > Len(DataSources) \/ Len(CELLS) = 0
    /\ pcn' = [at |-> "done", file |-> pcn.file, cell |-> pcn.cell]
    /\ UNCHANGED <<nc_file, cells, nc_rows>>
    /\ UNCHANGED builder_vars
    /\ UNCHANGED run_vars
    /\ UNCHANGED loader_vars
    /\ UNCHANGED <<weights_df, pcg, choice_advances>>

\* ncloader alone, on a directory of netCDF files of one grid
InitNcloader ==
    /\ InitNoBuilder
    /\ csv_file = <<>>
    /\ InitRuns
    /\ InitArgs
    /\ pc = [r \in Runs |-> "off"]
    /\ nc_file \in NcFiles
    /\ cells = <<>>
    /\ nc_rows = <<>>
    /\ pcn = [at |-> "start", file |-> 0, cell |-> 0]

NextNcloader ==
    \/ nc_store
    \/ nc_read
    \/ nc_finish

SpecNcloader == InitNcloader /\ [][NextNcloader]_vars

\* two runs of the engine, one after the other, on one weight table file
InitPair ==
    /\ InitNoBuilder
    /\ \E opt \in PairTableOptions : csv_file = table_rows_of(opt, FALSE)
    /\ InitRuns
    /\ InitArgs
    /\ InitNoGrid
    /\ pc = [r \in Runs |-> "start"]

NextPair == \E r \in Runs :
    \/ run_load(r)
    \/ run_mapping(r)
    \/ run_begin(r)
    \/ run_batch(r)
    \/ run_finish(r)

SpecPair == InitPair /\ [][NextPair]_vars

-----------------------------------------------------------------------------
(* Properties *)

\* |num/den - target| <= 1e-6, for whole num, den > 0 and target
WithinTolerance(num, den, target) == Abs(num - target * den) <= den \div 1000000

\* the three rows of record k (from 1) in a result frame
RowsOf(df, k) == [h \in 0..2 |-> df[3 * (k - 1) + h + 1]]

\* the blocks of a weight table: (year, month, day, block-start hour)
TableBlocks(df) == {<<df[i].year, df[i].month, df[i].day, df[i].hour>> : i \in 1..Len(df)}

\* the rows of block b of a weight table holding slot k
SlotRows(df, b, k) ==
    SelectSeq(df, LAMBDA r : <<r.year, r.month, r.day, r.hour>> = b /\ r.hour_in_3h_block = k)

\* C1: mass conservation on the builder's table: for every future record
\* disaggregated against the file save_csv wrote, the three hourly amounts sum to
\* the record's 3-hour total within 1e-6
C1_MassConserved ==
    pc[1] = "done" =>
        \A k \in 1..Len(future_df[1]) :
            LET rows == RowsOf(result_df[1], k)
                den == rows[0].pr_hourly_disaggregated[2]
                num == rows[0].pr_hourly_disaggregated[1] + rows[1].pr_hourly_disaggregated[1]
                       + rows[2].pr_hourly_disaggregated[1]
            IN /\ \A h \in 0..2 : rows[h].pr_hourly_disaggregated[2] = den
               /\ WithinTolerance(num, den, future_df[1][k].pr)

\* C2: in the file the builder writes, the three stored weights of every block
\* (slots 0, 1, 2) sum to 1.0 within 1e-6
C2_StoredTriplesSumToOne ==
    pcb = "saved" =>
        \A b \in TableBlocks(csv_file) :
            WithinTolerance(SumSeq(MapSeq(SlotRows(csv_file, b, 0), LAMBDA r : r.weight))
                            + SumSeq(MapSeq(SlotRows(csv_file, b, 1), LAMBDA r : r.weight))
                            + SumSeq(MapSeq(SlotRows(csv_file, b, 2), LAMBDA r : r.weight)),
                            10000, 1)

\* both runs are done and were given the same future records and the same seed
SameInput ==
    /\ pc[1] = "done"
    /\ pc[2] = "done"
    /\ future_df[1] = future_df[2]
    /\ random_seed[1] = random_seed[2]

\* what a result row says of the selection made for its record
Selection(row) == <<row.weight_used, row.match_level, row.reference_datetime>>

\* C3: batch-size independence: two runs on the same ordered future records, the
\* same weight table and the same seed give every record the same weight_used and
\* match_level, whatever the two batch sizes
C3_BatchSizeIndependent ==
    SameInput =>
        \A p \in 1..Len(result_df[1]) :
            /\ result_df[1][p].weight_used = result_df[2][p].weight_used
            /\ result_df[1][p].match_level = result_df[2][p].match_level

\* C4: reproducibility: two runs on the same ordered future records, the same
\* weight table, the same seed and the same batch size give the same output rows
C4_Reproducible ==
    (SameInput /\ batch_size[1] = batch_size[2]) => result_df[1] = result_df[2]

\* C4, its case: both runs are done on the same two records in one batch of two,
\* and the batch's generator drew twice
C4_Witness ==
    /\ SameInput
    /\ batch_size[1] = 2
    /\ batch_size[2] = 2
    /\ Len(future_df[1]) = 2
    /\ <<random_seed[1], 2>> \in DOMAIN pcg

\* C5: record independence: with the seed, the weight table and the batch size
\* the same, a record at the same place of the input gets the same weight_used,
\* match_level and reference_datetime in both runs, whatever the other records are
C5_RecordIndependent ==
    (/\ pc[1] = "done"
     /\ pc[2] = "done"
     /\ random_seed[1] = random_seed[2]
     /\ batch_size[1] = batch_size[2]) =>
        \A k \in 1..Min(Len(future_df[1]), Len(future_df[2])) :
            future_df[1][k] = future_df[2][k] =>
                \A h \in 0..2 :
                    Selection(RowsOf(result_df[1], k)[h]) = Selection(RowsOf(result_df[2], k)[h])

\* C6: the run emits 3n rows in input order: rows 3k, 3k+1, 3k+2 carry record k's
\* cell_id, block timestamp and total, the offsets 0, 1, 2, the block start plus
\* the offset in hours, one match_level and one reference_datetime for the three,
\* and the total times the row's weight_used
C6_ThreeRowsPerRecord ==
    pc[1] = "done" =>
        /\ Len(result_df[1]) = 3 * Len(future_df[1])
        /\ \A k \in 1..Len(future_df[1]) :
              LET f == future_df[1][k]
                  rows == RowsOf(result_df[1], k)
              IN \A h \in 0..2 :
                    /\ rows[h].cell_id = f.cell_id
                    /\ rows[h].time_3hourly = f.time
                    /\ rows[h].pr_3hourly_original = f.pr
                    /\ rows[h].hour_in_3h_block = h
                    /\ rows[h].time_hourly = AddHours(f.time, h)
                    /\ rows[h].match_level = rows[0].match_level
                    /\ rows[h].match_level \in MatchLevels
                    /\ rows[h].reference_datetime = rows[0].reference_datetime
                    /\ rows[h].pr_hourly_disaggregated
                         = <<f.pr * rows[h].weight_used[1], rows[h].weight_used[2]>>

\* C6, its case: a run of two records in two batches is done
C6_Witness ==
    /\ pc[1] = "done"
    /\ Len(future_df[1]) = 2
    /\ batch_size[1] = 1
    /\ batch_idx[1] = 2

\* the record has no candidate in either index
NoCandidates(r, f) ==
    /\ f.key_exact \notin DOMAIN weights_dict_exact[r]
    /\ <<f.month, f.hour>> \notin DOMAIN weights_dict_monthly[r]

\* C7: a record whose exact key and whose (month, hour) are in neither index gets
\* EGYENLETES, the weights 1/3, 1/3, 1/3, no reference date and three equal amounts
C7_UniformWhenNoCandidates ==
    pc[1] = "done" =>
        \A k \in 1..Len(future_df[1]) :
            NoCandidates(1, future_df[1][k]) =>
                \A h \in 0..2 :
                    LET row == RowsOf(result_df[1], k)[h]
                    IN /\ row.match_level = "EGYENLETES"
                       /\ row.weight_used = <<1, 3>>
                       /\ row.reference_datetime = NoneRef
                       /\ row.pr_hourly_disaggregated = <<future_df[1][k].pr, 3>>

\* C7, its case: a done run held a record without candidates while the table
\* held rows for another hour of its month
C7_Witness ==
    /\ pc[1] = "done"
    /\ weights_df # <<>>
    /\ \E k \in 1..Len(future_df[1]) : NoCandidates(1, future_df[1][k])

\* the years of period_weights whose rows are a complete triple
CompleteYears(period_weights) ==
    {y \in Range(available_years(period_weights)) :
        complete_triple(SelectSeq(period_weights, LAMBDA r : r.year = y))}

\* the stored weights of year y in period_weights, by slot, and its slot-0 label
StoredWeight(period_weights, y, b) ==
    SelectSeq(period_weights, LAMBDA r : r.year = y /\ r.hour_in_3h_block = b)[1].weight

StoredLabel(period_weights, y) ==
    SelectSeq(period_weights,
              LAMBDA r : r.year = y /\ r.hour_in_3h_block = 0)[1].year_month_day_hour

\* the three rows of a record are year y's triple of period_weights under level
ResolvesTo(rows, period_weights, y, level) ==
    \A h \in 0..2 :
        /\ rows[h].match_level = level
        /\ rows[h].weight_used = <<StoredWeight(period_weights, y, h), 10000>>
        /\ rows[h].reference_datetime = StoredLabel(period_weights, y)

\* C8: a record whose exact key is present, exactly one candidate year holding a
\* complete triple, resolves to that year's triple with EGZAKT
C8_SingleCompleteYear ==
    pc[1] = "done" =>
        \A k \in 1..Len(future_df[1]) :
            LET f == future_df[1][k]
                period_weights == weights_dict_exact[1][f.key_exact]
            IN (f.key_exact \in DOMAIN weights_dict_exact[1]
                /\ Cardinality(CompleteYears(period_weights)) = 1) =>
                   \A y \in CompleteYears(period_weights) :
                       ResolvesTo(RowsOf(result_df[1], k), period_weights, y, "EGZAKT")

\* the rows of every (year, day) block of period_weights are a complete triple
EveryBlockComplete(period_weights) ==
    \A i \in 1..Len(period_weights) :
        complete_triple(SelectSeq(period_weights,
            LAMBDA r : r.year = period_weights[i].year /\ r.day = period_weights[i].day))

\* C9: a record whose exact key is absent and whose (month, hour) has pooled
\* candidates, every pooled block a complete triple, gets HAVI
C9_MonthlyLevel ==
    pc[1] = "done" =>
        \A k \in 1..Len(future_df[1]) :
            LET f == future_df[1][k]
            IN (/\ f.key_exact \notin DOMAIN weights_dict_exact[1]
                /\ <<f.month, f.hour>> \in DOMAIN weights_dict_monthly[1]
                /\ EveryBlockComplete(weights_dict_monthly[1][<<f.month, f.hour>>])) =>
                   \A h \in 0..2 : RowsOf(result_df[1], k)[h].match_level = "HAVI"

\* the exact key of f is present and every candidate year holds a complete triple
AllYearsComplete(r, f) ==
    /\ f.key_exact \in DOMAIN weights_dict_exact[r]
    /\ CompleteYears(weights_dict_exact[r][f.key_exact])
         = Range(available_years(weights_dict_exact[r][f.key_exact]))

\* C10: a record whose exact key is present, every candidate year complete, gets
\* EGZAKT, the three stored weights of one candidate year in slot order, and the
\* label of that year's slot-0 row as reference_datetime
C10_ExactProvenance ==
    pc[1] = "done" =>
        \A k \in 1..Len(future_df[1]) :
            AllYearsComplete(1, future_df[1][k]) =>
                \E y \in CompleteYears(weights_dict_exact[1][future_df[1][k].key_exact]) :
                    ResolvesTo(RowsOf(result_df[1], k),
                               weights_dict_exact[1][future_df[1][k].key_exact], y, "EGZAKT")

\* C10, its case: a done run held a record with two complete candidate years whose
\* rows stand in the file with slot 2 first
C10_Witness ==
    /\ pc[1] = "done"
    /\ \E k \in 1..Len(future_df[1]) :
          /\ AllYearsComplete(1, future_df[1][k])
          /\ Len(available_years(weights_dict_exact[1][future_df[1][k].key_exact])) = 2
          /\ weights_dict_exact[1][future_df[1][k].key_exact][1].hour_in_3h_block = 2

\* the amount the hourly series holds at time t, 0 when it holds none
HourlyAt(t) ==
    LET at == {i \in 1..Len(hourly) : hourly[i].time = t}
    IN IF at = {} THEN 0 ELSE hourly[CHOOSE i \in at : \A j \in at : i <= j].pr

\* the observations of weights_raw for the block starting at t
ObservationsOf(t) == SelectSeq(weights_raw, LAMBDA r : r.datetime = t)

\* C11: pairing: for every 3-hour row, with the hourly amounts at its start, +1h
\* and +2h (0 where the hourly series has no row): no observation when they sum
\* to 0, else exactly three, slots 0, 1, 2 in order, carrying the block's year,
\* month, day and start hour, with weight hourly[i] / sum, each in [0, 1], the
\* three summing to 1; and no observation belongs to no 3-hour row
C11_Pairing ==
    pcb # "loaded" =>
        /\ \A i \in 1..Len(threehourly) :
              LET t == threehourly[i].time
                  amount == [k \in 0..2 |-> HourlyAt(AddHours(t, k))]
                  total == amount[0] + amount[1] + amount[2]
                  obs == ObservationsOf(t)
              IN IF total = 0 THEN obs = <<>>
                 ELSE /\ Len(obs) = 3
                      /\ \A k \in 0..2 :
                            /\ obs[k + 1].hour_in_3h_block = k
                            /\ obs[k + 1].year = t.year
                            /\ obs[k + 1].month = t.month
                            /\ obs[k + 1].day = t.day
                            /\ obs[k + 1].hour = t.hour
                            /\ obs[k + 1].weight[2] > 0
                            /\ obs[k + 1].weight[1] * total = amount[k] * obs[k + 1].weight[2]
                            /\ obs[k + 1].weight[1] >= 0
                            /\ obs[k + 1].weight[1] <= obs[k + 1].weight[2]
                            /\ obs[k + 1].weight[2] = obs[1].weight[2]
                      /\ obs[1].weight[1] + obs[2].weight[1] + obs[3].weight[1] = obs[1].weight[2]
        /\ \A j \in 1..Len(weights_raw) :
              \E i \in 1..Len(threehourly) : threehourly[i].time = weights_raw[j].datetime

\* C11, its case: the matching is done on a history with a 3-hour row whose three
\* hours are missing and a block whose third hour alone is missing
C11_Witness ==
    /\ pcb = "matched"
    /\ \E i \in 1..Len(threehourly) :
          \A k \in 0..2 : HourlyAt(AddHours(threehourly[i].time, k)) = 0
    /\ \E j \in 1..Len(weights_raw) :
          /\ weights_raw[j].hour_in_3h_block = 2
          /\ weights_raw[j].weight[1] = 0

\* the three rows of a record carry the normalised slot means of period_weights
\* and the label of its first row
AveragedFrom(rows, period_weights) ==
    LET avg == average_weights(period_weights)
    IN \A h \in 0..2 :
          /\ rows[h].weight_used = <<avg[h + 1], avg[4]>>
          /\ rows[h].reference_datetime = period_weights[1].year_month_day_hour

\* C12: match-level precedence: a record whose exact key is in the exact index is
\* never HAVI or HAVI_AVG, and what it gets under EGZAKT or EGZAKT_AVG comes from
\* the exact group alone (one of its years' triple, or its slot means); a record
\* whose exact key is absent is never EGZAKT or EGZAKT_AVG
C12_ExactPrecedence ==
    pc[1] = "done" =>
        \A k \in 1..Len(future_df[1]) :
            LET f == future_df[1][k]
                rows == RowsOf(result_df[1], k)
                level == rows[0].match_level
            IN IF f.key_exact \in DOMAIN weights_dict_exact[1]
               THEN /\ level \notin {"HAVI", "HAVI_AVG"}
                    /\ level = "EGZAKT" =>
                          \E y \in CompleteYears(weights_dict_exact[1][f.key_exact]) :
                              ResolvesTo(rows, weights_dict_exact[1][f.key_exact], y, "EGZAKT")
                    /\ level = "EGZAKT_AVG" =>
                          AveragedFrom(rows, weights_dict_exact[1][f.key_exact])
               ELSE level \notin {"EGZAKT", "EGZAKT_AVG"}

\* C12, its case: a done run held a record whose exact group has no complete year
\* and misses a slot, while the pool of its month and hour holds a complete triple
C12_Witness ==
    /\ pc[1] = "done"
    /\ \E k \in 1..Len(future_df[1]) :
          LET f == future_df[1][k]
          IN /\ f.key_exact \in DOMAIN weights_dict_exact[1]
             /\ CompleteYears(weights_dict_exact[1][f.key_exact]) = {}
             /\ \E i \in 1..Len(weights_dict_monthly[1][<<f.month, f.hour>>]) :
                   weights_dict_monthly[1][<<f.month, f.hour>>][i].hour_in_3h_block = 2

\* max_attempts of stochastic_weight_selection, the attempt budget of the retry
RetryBudget == 10

\* the draws made so far by the generator of the given seed
DrawsMade(seed) == Cardinality({sk \in DOMAIN pcg : sk[1] = seed})

\* the candidates of record f of run r: the exact group, else the monthly pool
CandidatesOf(r, f) ==
    IF f.key_exact \in DOMAIN weights_dict_exact[r]
    THEN weights_dict_exact[r][f.key_exact]
    ELSE IF <<f.month, f.hour>> \in DOMAIN weights_dict_monthly[r]
    THEN weights_dict_monthly[r][<<f.month, f.hour>>]
    ELSE <<>>

\* C13: bounded retry: a record with several candidate years is given the average
\* fallback only after the attempt budget of draws is spent: in a run of one such
\* record that ends with an _AVG level, the run's generator has drawn RetryBudget
\* times
C13_BoundedRetry ==
    (/\ pc[1] = "done"
     /\ Len(future_df[1]) = 1
     /\ Len(available_years(CandidatesOf(1, future_df[1][1]))) > 1
     /\ result_df[1][1].match_level \in {"EGZAKT_AVG", "HAVI_AVG"}) =>
        DrawsMade(batch_rng_seed(random_seed[1], 0)) = RetryBudget

\* the slots period_weights holds a row for
SlotsOf(period_weights) ==
    {period_weights[i].hour_in_3h_block : i \in 1..Len(period_weights)}

\* the level a record's candidates are found at
BaseLevel(r, f) == IF f.key_exact \in DOMAIN weights_dict_exact[r] THEN "EGZAKT" ELSE "HAVI"

\* C14: average fallback: a record whose candidates hold no complete year (so no
\* drawn year is complete) but rows for all three slots gets '<level>_AVG' with
\* the slot means divided by their sum; when the means sum to zero it gets
\* 1/3, 1/3, 1/3, still under '<level>_AVG'
C14_AverageFallback ==
    pc[1] = "done" =>
        \A k \in 1..Len(future_df[1]) :
            LET f == future_df[1][k]
                period_weights == CandidatesOf(1, f)
                avg == average_weights(period_weights)
                rows == RowsOf(result_df[1], k)
            IN (/\ CompleteYears(period_weights) = {}
                /\ SlotsOf(period_weights) = {0, 1, 2}) =>
                   \A h \in 0..2 :
                       /\ rows[h].match_level
                            = (IF BaseLevel(1, f) = "EGZAKT" THEN "EGZAKT_AVG" ELSE "HAVI_AVG")
                       /\ rows[h].weight_used
                            = (IF avg[4] > 0 THEN <<avg[h + 1], avg[4]>> ELSE <<1, 3>>)

\* C15: ERROR fallback: a record that has candidates at the exact or the monthly
\* level, no candidate year complete and the candidates not covering slots 0, 1, 2,
\* gets 1/3, 1/3, 1/3 with match_level HIBA, not the EGYENLETES of a record
\* without candidates
C15_ErrorFallback ==
    pc[1] = "done" =>
        \A k \in 1..Len(future_df[1]) :
            LET period_weights == CandidatesOf(1, future_df[1][k])
            IN (/\ period_weights # <<>>
                /\ CompleteYears(period_weights) = {}
                /\ SlotsOf(period_weights) # {0, 1, 2}) =>
                   \A h \in 0..2 :
                       /\ RowsOf(result_df[1], k)[h].match_level = "HIBA"
                       /\ RowsOf(result_df[1], k)[h].weight_used = <<1, 3>>

\* rows a and b have one calendar key (month, day, block-start hour) and one slot
SameCalendarSlot(a, b) ==
    /\ a.month = b.month
    /\ a.day = b.day
    /\ a.hour = b.hour
    /\ a.hour_in_3h_block = b.hour_in_3h_block

\* C16: aggregation across years: for every calendar key (month, day, block-start
\* hour) and slot of the raw observations, aggregate_weights yields one row, whose
\* weight is the mean (to 4 decimals) of the observations of all years and whose
\* count is the number of those years
C16_AggregatedAcrossYears ==
    pcb \in {"aggregated", "normalized", "saved"} =>
        \A i \in 1..Len(weights_raw) :
            LET group == SelectSeq(weights_raw, LAMBDA r : SameCalendarSlot(r, weights_raw[i]))
                rows == SelectSeq(weights_agg_hourly,
                                  LAMBDA r : SameCalendarSlot(r, weights_raw[i]))
                m == mean_weight([j \in 1..Len(group) |-> group[j].weight])
            IN /\ Len(rows) = 1
               /\ rows[1].count = Len(group)
               /\ rows[1].weight_mean = Round4(m[1], m[2])

\* C17: after normalize_weights every block of the result has one row per slot
\* 0, 1, 2, each 'weight' is the input weight divided by the block's total input
\* weight (1/3 when that total is 0), and the three sum to 1.0
C17_NormalizedBlocksSumToOne ==
    pcb \in {"normalized", "saved"} =>
        \A b \in TableBlocks(weights_final_hourly) :
            LET given == [k \in 0..2 |-> SlotRows(weights_agg_hourly, b, k)[1].weight[1]]
                total == given[0] + given[1] + given[2]
                out == [k \in 0..2 |-> SlotRows(weights_final_hourly, b, k)[1].weight]
            IN /\ \A k \in 0..2 : Len(SlotRows(weights_final_hourly, b, k)) = 1
               /\ \A k \in 0..2 :
                     IF total > 0 THEN out[k][1] * total = given[k] * out[k][2]
                     ELSE out[k][1] * 3 = out[k][2]
               /\ out[0][1] * out[1][2] * out[2][2] + out[1][1] * out[0][2] * out[2][2]
                    + out[2][1] * out[0][2] * out[1][2]
                  = out[0][2] * out[1][2] * out[2][2]

\* sum(match_stats.values())
TotalOf(stats) ==
    stats["EGZAKT"] + stats["HAVI"] + stats["EGYENLETES"] + stats["HIBA"]
    + stats["EGZAKT_AVG"] + stats["HAVI_AVG"]

\* the records the batches done so far cover
Processed(r) == Min(batch_idx[r] * batch_size[r], Len(future_df[r]))

\* C18: match-level histogram: after every batch the counts of match_stats sum to
\* the number of records processed so far; when the run is done each level's
\* count is the number of future records whose rows carry that level, and the
\* counts sum to n
C18_Histogram ==
    /\ pc[1] = "batches" => TotalOf(match_stats[1]) = Processed(1)
    /\ pc[1] = "done" =>
          /\ TotalOf(match_stats[1]) = Len(future_df[1])
          /\ \A l \in MatchLevels :
                match_stats[1][l]
                  = Cardinality({k \in 1..Len(future_df[1]) :
                                    RowsOf(result_df[1], k)[0].match_level = l})

\* C18, its case: a run of two records in two batches is done and its records got
\* two different levels
C18_Witness ==
    /\ pc[1] = "done"
    /\ Len(future_df[1]) = 2
    /\ batch_size[1] = 1
    /\ result_df[1][1].match_level # result_df[1][4].match_level

\* the three result positions of record k (from 1) hold its values in every
\* column, the two lists included
Populated(r, k) ==
    \A h \in 0..2 :
        LET p == 3 * (k - 1) + h + 1
            f == future_df[r][k]
        IN /\ result[r].cell_ids[p] = f.cell_id
           /\ result[r].times_3h[p] = f.time
           /\ result[r].times_1h[p] = AddHours(f.time, h)
           /\ result[r].pr_3h[p] = f.pr
           /\ result[r].hours[p] = h
           /\ result[r].weights[p][2] > 1
           /\ result[r].pr_1h[p] = <<f.pr * result[r].weights[p][1], result[r].weights[p][2]>>
           /\ p <= Len(result[r].match_levels)
           /\ p <= Len(result[r].ref_dates)
           /\ result[r].match_levels[p] \in MatchLevels

\* the three result positions of record k are as allocated, and no list reaches them
Unpopulated(r, k) ==
    \A h \in 0..2 :
        LET p == 3 * (k - 1) + h + 1
        IN /\ result[r].cell_ids[p] = 0
           /\ result[r].times_3h[p] = NoTime
           /\ result[r].times_1h[p] = NoTime
           /\ result[r].pr_3h[p] = 0
           /\ result[r].pr_1h[p] = <<0, 1>>
           /\ result[r].weights[p] = <<0, 1>>
           /\ p > Len(result[r].match_levels)
           /\ p > Len(result[r].ref_dates)

\* the batches done so far cover the records 1..Processed in order and nothing
\* else: those records are populated, the later ones untouched, the lists hold
\* three entries per covered record; a finished loop has covered every record,
\* and it made no pass over an empty input
BatchesIntact(r) ==
    /\ \A k \in 1..Len(future_df[r]) :
          IF k <= Processed(r) THEN Populated(r, k) ELSE Unpopulated(r, k)
    /\ Len(result[r].match_levels) = 3 * Processed(r)
    /\ Len(result[r].ref_dates) = 3 * Processed(r)
    /\ pc[r] = "done" => Processed(r) = Len(future_df[r])
    /\ Len(future_df[r]) = 0 => batch_idx[r] = 0

\* the length of every numeric result column of run r is len
NumericColumnsAt(r, len) ==
    /\ Len(result[r].cell_ids) = len
    /\ Len(result[r].times_3h) = len
    /\ Len(result[r].times_1h) = len
    /\ Len(result[r].pr_3h) = len
    /\ Len(result[r].pr_1h) = len
    /\ Len(result[r].hours) = len
    /\ Len(result[r].weights) = len

\* C19, as stated: batch-boundary integrity: after every batch the records
\* covered so far, and only they, have their three rows populated in every
\* column, and the numeric columns and the two lists are all at length 3 * end_idx
C19_BatchBoundaryIntegrity ==
    pc[1] \in {"batches", "done"} =>
        /\ BatchesIntact(1)
        /\ NumericColumnsAt(1, 3 * Processed(1))

\* C19, amended: batch-boundary integrity: after every batch the records covered
\* so far, and only they, have their three rows populated in every column; the
\* two lists are at length 3 * end_idx, and the numeric columns, allocated before
\* the loop, are at length 3 * n throughout
C19_PopulatedPrefix ==
    pc[1] \in {"batches", "done"} =>
        /\ BatchesIntact(1)
        /\ NumericColumnsAt(1, 3 * Len(future_df[1]))

\* C19, its case: the run stands between its first and its second batch of one
\* record each
C19_Witness ==
    /\ pc[1] = "batches"
    /\ Len(future_df[1]) = 2
    /\ batch_size[1] = 1
    /\ batch_idx[1] = 1

\* C20: the indices are read-only after construction: while the batches run and
\* when the run is done, weights_dict_exact and weights_dict_monthly hold the keys
\* and the rows, in their order, that the grouping of the weight table gave them
C20_IndicesUnchanged ==
    pc[1] \in {"batches", "done"} =>
        /\ weights_dict_exact[1] = weights_groups_exact(weights_df)
        /\ weights_dict_monthly[1] = weights_groups_monthly(weights_df)
        /\ weights_df = csv_file

\* C20, its case: a run of two batches is done whose table stands with slot 2
\* first and whose generators drew, so that groups were read, filtered and sorted
C20_Witness ==
    /\ pc[1] = "done"
    /\ batch_idx[1] = 2
    /\ pcg # <<>>
    /\ weights_df # <<>>
    /\ weights_df[1].hour_in_3h_block = 2
    /\ \E k \in 1..Len(future_df[1]) : result_df[1][3 * k].match_level = "EGZAKT"

\* C21: input filters: the loaded records all have pr > 0; with --cell-id given
\* every loaded record, and every row saved under that cell's directory, has that
\* cell_id, with or without --limit-rows; with --limit-rows L given at most L
\* records are loaded
C21_InputFilters ==
    pc[1] \notin {"off", "start"} =>
        /\ \A i \in 1..Len(future_df[1]) : future_df[1][i].pr > 0
        /\ args.cell_id # {} =>
              \A i \in 1..Len(future_df[1]) : future_df[1][i].cell_id \in args.cell_id
        /\ (args.cell_id # {} /\ pc[1] = "saved") =>
              /\ saved.dir = <<"results", "cell", the(args.cell_id)>>
              /\ \A p \in 1..Len(saved.rows) : saved.rows[p].cell_id \in args.cell_id
        /\ args.limit_rows # {} => Len(future_df[1]) <= the(args.limit_rows)

\* every block of the frame df has exactly one row for each of the slots 0, 1, 2
CompleteBlocks(df) ==
    \A b \in TableBlocks(df) : \A k \in 0..2 : Len(SlotRows(df, b, k)) = 1

\* C22: table completeness: after each stage of the builder (matching,
\* aggregation, normalisation, saving) every (year, month, day, block-start hour)
\* block of the stage's frame has exactly three rows, one per slot 0, 1, 2, no
\* stage changes the set of blocks, and in a run on the saved table every year
\* under every exact key holds a complete triple
C22_TableComplete ==
    /\ pcb \in {"matched", "failed", "aggregated", "normalized", "saved"} =>
          /\ CompleteBlocks(weights_raw)
          /\ Len(weights_raw) = 3 * Cardinality(TableBlocks(weights_raw))
    /\ pcb \in {"aggregated", "normalized", "saved"} =>
          /\ CompleteBlocks(weights_agg_hourly)
          /\ TableBlocks(weights_agg_hourly) = TableBlocks(weights_raw)
    /\ pcb \in {"normalized", "saved"} =>
          /\ CompleteBlocks(weights_final_hourly)
          /\ TableBlocks(weights_final_hourly) = TableBlocks(weights_raw)
    /\ pcb = "saved" =>
          /\ CompleteBlocks(csv_file)
          /\ TableBlocks(csv_file) = TableBlocks(weights_raw)
          /\ Len(csv_file) = 3 * Cardinality(TableBlocks(csv_file))
    /\ pc[1] \in {"mapped", "batches", "done"} =>
          \A key \in DOMAIN weights_dict_exact[1] :
              CompleteYears(weights_dict_exact[1][key])
                = Range(available_years(weights_dict_exact[1][key]))

\* C22, its case: a run is done on a saved table that holds a block with a zero
\* weight and two years under one exact key, one of which a record drew
C22_Witness ==
    /\ pcb = "saved"
    /\ pc[1] = "done"
    /\ \E i \in 1..Len(csv_file) : csv_file[i].weight = 0
    /\ \E key \in DOMAIN weights_dict_exact[1] :
          Len(available_years(weights_dict_exact[1][key])) = 2
    /\ \E p \in 1..Len(result_df[1]) : result_df[1][p].match_level = "EGZAKT"

\* C23: cell-id round trip: every value read_netcdf reads for a cell_id of the
\* cells table is read at the grid position whose lon and lat store_celldata
\* stored under that cell_id
C23_CellIdRoundTrip ==
    \A i \in 1..Len(nc_rows) :
        \A j \in 1..Len(cells) :
            cells[j].cell_id = nc_rows[i].cell_id =>
                /\ lats(nc_file, nc_rows[i].si, nc_rows[i].oi) = cells[j].lat
                /\ lons(nc_file, nc_rows[i].si, nc_rows[i].oi) = cells[j].lon

=============================================================================
